---- MODULE Spec2Model ----
(***************************************************************************)
(* MedGemma Girder plugin: the job orchestrator (trigger_zip_pipeline,     *)
(* analyze_item) and the status reconciler (get_job_status,                *)
(* get_zip_job_status, get_item_pipeline_status) of src/girder_plugin.py,  *)
(* together with the Airflow client of src/airflow_integration.py and the  *)
(* workflow engine it talks to.                                            *)
(*                                                                         *)
(* A request handler is a sequence of steps: the first runs from the       *)
(* loading of the item to the answer of the workflow engine, the second    *)
(* writes the item document, the last sends the response.  cur[c] holds    *)
(* the locals of the request client c is running and, while pc[c] is       *)
(* "return", the result it is about to answer with.                        *)
(*                                                                         *)
(* A Python dict is a record with one field per key; a key that is absent  *)
(* holds the None value of the field's type (None, NoId, 0, FALSE).        *)
(***************************************************************************)
EXTENDS Integers, Sequences, FiniteSets, TLC

\* ------------------------------------------------------------------ bounds
\* The job ids minted in a behaviour, and the tasks of a DAG.
MaxRuns == 2
MaxTasks == 4
\* The longest task-instance list an engine of any DAG answers with, and the
\* runs triggered in a behaviour that looks at the progress of a run.
MaxTaskList == 3
MaxProgressRuns == 1

\* The DICOM processor: files in a directory, slices of a series, slices to
\* select.
MaxFiles == 3

MaxSeries == 13

MaxSlices == 6

\* The pixels of an array and their largest stored value.
MaxPixels == 3

MaxPixel == 3

\* --------------------------------------------------------------- constants
Items == {1, 2}
Clients == {1, 2}
\* getCurrentUser(): the login of the user behind client c.
current_user(c) == IF c = 1 THEN "alice" ELSE "bob"

None == "none"
NoId == <<>>

zip_dag_id == "girder_zip_pipeline"
analysis_dag_id == "medgemma_analysis_pipeline"
processed_item_name == "Processed Dicom"

ZipFile == [stem |-> "scan", ext |-> ".zip"]
DcmFile == [stem |-> "slice", ext |-> ".dcm"]
FileSets == {{}, {ZipFile}, {DcmFile}}

\* The folder every source item lives in, and the values a caller passes for
\* the optional parameters folder_id and item_name: neither, or both.
HomeFolder == "F1"
TargetArgs == {<<None, None>>, <<"F2", "custom">>}

RunStates == {"queued", "running", "success", "failed"}
done_states == {"success", "failed", "skipped", "upstream_failed"}

VARIABLES
    meta,       \* meta[i]: the metadata persisted on item i
    files,      \* files[i]: the files attached to item i
    processed,  \* the processed output items: <<source item, folder, name>>
    runs,       \* the engine's DAG runs, in creation order
    uuids,      \* number of job ids minted so far
    pc,         \* pc[c]: where client c's request stands
    cur,        \* cur[c]: the locals of client c's request, and its result
    dp          \* the DICOM processor's call: its arguments, locals and outcome

service_vars == <<meta, files, processed, runs, uuids, pc, cur>>

vars == <<meta, files, processed, runs, uuids, pc, cur, dp>>

\* ----------------------------------------------------------------- helpers
\* datetime.now(timezone.utc): time is counted in minted job ids, so that the
\* requests that trigger carry increasing timestamps.
now == uuids

\* dict.get(key, default) on a field whose absent value is `none`.
Get(value, none, default) == IF value = none THEN default ELSE value

EmptyMeta ==
    [airflow_dag_id |-> None, airflow_job_id |-> NoId, analysis_status |-> None,
     job_started |-> 0, triggered_by |-> None, triggered_at |-> 0,
     processed_dicom_ready |-> FALSE]

\* Item().setMetadata(item, metadata): merges the update into the meta of the
\* item document the handler holds, and saves that document.
setMetadata(item_meta, update) ==
    [k \in DOMAIN item_meta |->
        IF k \in DOMAIN update THEN update[k] ELSE item_meta[k]]

NoProgress == [percent |-> 0, done_tasks |-> 0, total_tasks |-> 0]

NoResult ==
    [kind |-> None, status |-> None, job_id |-> NoId, progress |-> NoProgress]

\* The locals of a request: the operation, its arguments, the item document
\* as loaded, what the engine answered, the calls made so far (trigger, run
\* status, task instances, metadata writes), the number of runs the engine
\* held when the request arrived, and the result.  token is the Girder token
\* of a trigger_zip_pipeline request and the Hugging Face token of an
\* analyze_item request.
Idle ==
    [op |-> None, item |-> 0, user |-> None, token |-> FALSE,
     item_meta |-> EmptyMeta, existing_processed |-> FALSE, runs_before |-> 0,
     folder |-> None, name |-> None, dag_id |-> None, job_id |-> NoId,
     dag_run |-> [dag_run_id |-> NoId, state |-> None, logical_date |-> 0],
     state |-> None, progress |-> NoProgress,
     ntrig |-> 0, nstat |-> 0, ntask |-> 0, nwrite |-> 0,
     result |-> NoResult]

\* _latest_zip_file: the item's ZIP files, newest first; None when there is none.
latest_zip_file(i) ==
    IF \E f \in files[i] : f.ext = ".zip"
    THEN CHOOSE f \in files[i] : f.ext = ".zip"
    ELSE [stem |-> None, ext |-> None]

\* _default_output_item_name: <stem>_triage, or the configured name for an
\* empty stem.
default_output_item_name(f) ==
    IF f.stem = "" THEN processed_item_name ELSE f.stem \o "_triage"

\* _already_processed_item: the output item of this source item in the target
\* folder under the target name, if there is one.
already_processed_item(source_item_id, folder_id, name) ==
    <<source_item_id, folder_id, name>> \in processed

\* A run id that does not carry the job id.
dag_run_id_of_kind_only(prefix, job_id) == <<prefix, 1>>

\* The run id a handler sends: manual__girder_<uuid> or manual__analysis_<uuid>.
dag_run_id_of(prefix, job_id) == <<prefix, job_id>>

\* The engine's run with this DAG and run id, 0 when there is none.
RunIndex(dag_id, dag_run_id) ==
    IF \E r \in 1..Len(runs) :
          runs[r].dag_id = dag_id /\ runs[r].dag_run_id = dag_run_id
    THEN CHOOSE r \in 1..Len(runs) :
          runs[r].dag_id = dag_id /\ runs[r].dag_run_id = dag_run_id
    ELSE 0

\* The handler reaches a return statement: cur[c] holds the call's locals and
\* its result until the response is sent.
Finish(c, rec, result) ==
    /\ cur' = [cur EXCEPT ![c] = [rec EXCEPT !.result = result]]
    /\ pc' = [pc EXCEPT ![c] = "return"]

\* -------------------------------------------------------------------- Init
\* The plugin is loaded; the items in I hold the files uploaded to them and
\* no item has metadata yet.
InitWith(I) ==
    /\ meta = [i \in Items |-> EmptyMeta]
    /\ files \in {f \in [Items -> FileSets] : \A i \in Items \ I : f[i] = {}}
    /\ processed = {}
    /\ runs = <<>>
    /\ uuids = 0
    /\ pc = [c \in Clients |-> "idle"]
    /\ cur = [c \in Clients |-> Idle]

\* ------------------------------------------------------------------ engine
\* The scheduler picks a queued run up.
EngineStart(r) ==
    /\ runs[r].state = "queued"
    /\ runs' = [runs EXCEPT ![r].state = "running"]
    /\ UNCHANGED <<meta, files, processed, uuids, pc, cur>>

\* A running run ends.  A ZIP run may by then have uploaded its output item
\* into the folder and under the name its configuration carries.
EngineFinish(r) ==
    /\ runs[r].state = "running"
    /\ \E s \in {"success", "failed"} : runs' = [runs EXCEPT ![r].state = s]
    /\ \/ processed' = processed
       \/ /\ runs[r].dag_id = zip_dag_id
          /\ processed' =
                processed \cup {<<runs[r].item, runs[r].folder, runs[r].name>>}
    /\ UNCHANGED <<meta, files, uuids, pc, cur>>

\* ------------------------------------------------- AirflowClient.trigger_dag
\* POST .../dags/{dag_id}/dagRuns.  The engine creates the run in state queued
\* and answers with it; the answer may leave the state out.  now + 1 is the
\* time of the request: the job id it carries has just been minted.
NewRun(rec) ==
    [dag_id |-> rec.dag_id, dag_run_id |-> rec.job_id, state |-> "queued",
     item |-> rec.item, folder |-> rec.folder, name |-> rec.name,
     logical_date |-> now + 1]

TriggerAnswers(rec) ==
    {[dag_run_id |-> rec.job_id, state |-> st, logical_date |-> now + 1] :
        st \in {"queued", None}}

\* trigger_dag with a handler that marks the item failed when the trigger
\* call raises.
trigger_dag_marking_failed(c, rec0, next_pc, error) ==
    LET rec == [rec0 EXCEPT !.ntrig = @ + 1] IN
    \/ \E dag_run \in TriggerAnswers(rec) :
         /\ meta' = meta
         /\ runs' = Append(runs, NewRun(rec))
         /\ uuids' = uuids + 1
         /\ cur' = [cur EXCEPT ![c] = [rec EXCEPT !.dag_run = dag_run]]
         /\ pc' = [pc EXCEPT ![c] = next_pc]
    \/ /\ meta' = [meta EXCEPT ![rec.item] =
              setMetadata(rec.item_meta, [analysis_status |-> "failed"])]
       /\ UNCHANGED <<runs, uuids>>
       /\ Finish(c, rec, error)

\* trigger_dag with a client that sends the request a second time when the
\* first one failed.
trigger_dag_retrying(c, rec0, next_pc, error) ==
    \E attempts \in {1, 2} :
        LET rec == [rec0 EXCEPT !.ntrig = @ + attempts] IN
        /\ meta' = meta
        /\ \/ \E dag_run \in TriggerAnswers(rec) :
                /\ runs' = Append(runs, NewRun(rec))
                /\ uuids' = uuids + 1
                /\ cur' = [cur EXCEPT ![c] = [rec EXCEPT !.dag_run = dag_run]]
                /\ pc' = [pc EXCEPT ![c] = next_pc]
           \/ /\ attempts = 2
              /\ UNCHANGED <<runs, uuids>>
              /\ Finish(c, rec, error)

\* The handler's try block around trigger_dag.  The request can fail before the
\* engine acts on it, or after (a timeout on the answer): both raise, and the
\* handler answers with the error.  A job id that reached no run is never seen
\* again, and is not counted as minted.
trigger_dag(c, rec0, next_pc, error) ==
    LET rec == [rec0 EXCEPT !.ntrig = @ + 1] IN
    /\ meta' = meta
    /\ \/ \E dag_run \in TriggerAnswers(rec) :
            /\ runs' = Append(runs, NewRun(rec))
            /\ uuids' = uuids + 1
            /\ cur' = [cur EXCEPT ![c] = [rec EXCEPT !.dag_run = dag_run]]
            /\ pc' = [pc EXCEPT ![c] = next_pc]
       \/ /\ UNCHANGED <<runs, uuids>>
          /\ Finish(c, rec, error)
       \/ /\ runs' = Append(runs, NewRun(rec))
          /\ uuids' = uuids + 1
          /\ Finish(c, rec, error)

\* ------------------------------------------------------ _set_trigger_metadata
\* _set_trigger_metadata without the analysis_status key.
trigger_metadata_without_status(rec) ==
    [airflow_dag_id |-> rec.dag_id,
     airflow_job_id |-> rec.dag_run.dag_run_id,
     job_started |-> rec.dag_run.logical_date,
     triggered_by |-> rec.user,
     triggered_at |-> now]

\* _set_trigger_metadata with a metadata dict that starts the item over.
trigger_metadata_resetting_ready(rec) ==
    [airflow_dag_id |-> rec.dag_id,
     airflow_job_id |-> rec.dag_run.dag_run_id,
     analysis_status |-> Get(rec.dag_run.state, None, "queued"),
     job_started |-> rec.dag_run.logical_date,
     triggered_by |-> rec.user,
     triggered_at |-> now,
     processed_dicom_ready |-> FALSE]

trigger_metadata(rec) ==
    [airflow_dag_id |-> rec.dag_id,
     airflow_job_id |-> rec.dag_run.dag_run_id,
     analysis_status |-> Get(rec.dag_run.state, None, "queued"),
     job_started |-> rec.dag_run.logical_date,
     triggered_by |-> rec.user,
     triggered_at |-> now]

set_trigger_metadata(c) ==
    meta' = [meta EXCEPT ![cur[c].item] =
                setMetadata(cur[c].item_meta, trigger_metadata(cur[c]))]

\* ------------------------------------------------------ trigger_zip_pipeline
\* An exception no handler catches: the framework answers for the handler,
\* and the caller gets no result body of the operation.
UncaughtFault == [NoResult EXCEPT !.kind = "fault"]

\* {"error": ...}: the body a handler returns from its except clause, or when
\* a precondition on the request fails.
ErrorResult == [NoResult EXCEPT !.kind = "error"]

InProgress(item_meta) ==
    [NoResult EXCEPT !.kind = "in_progress", !.status = "in_progress",
                     !.job_id = item_meta.airflow_job_id]

AlreadyProcessed ==
    [NoResult EXCEPT !.kind = "already_processed",
                     !.status = "already_processed"]

\* The started body without the run id of the new run.
Started_without_job_id(dag_run) == [NoResult EXCEPT !.kind = "started"]

Started(dag_run) ==
    [NoResult EXCEPT !.kind = "started", !.job_id = dag_run.dag_run_id]

\* The checks with the one on analysis_status ahead of the others.
zip_checks_status_first(i, item_meta, token, folder_id, name) ==
    IF item_meta.analysis_status \in {"queued", "running"}
    THEN InProgress(item_meta)
    ELSE IF latest_zip_file(i).ext = None THEN ErrorResult
    ELSE IF ~token THEN ErrorResult
    ELSE IF already_processed_item(i, folder_id, name)
            \/ item_meta.processed_dicom_ready
         THEN AlreadyProcessed
    ELSE NoResult

\* The checks without the one on analysis_status.
zip_checks_without_in_progress(i, item_meta, token, folder_id, name) ==
    IF latest_zip_file(i).ext = None THEN ErrorResult
    ELSE IF ~token THEN ErrorResult
    ELSE IF already_processed_item(i, folder_id, name)
            \/ item_meta.processed_dicom_ready
         THEN AlreadyProcessed
    ELSE NoResult

\* The checks looking for the output item only, not at processed_dicom_ready.
zip_checks_without_ready_flag(i, item_meta, token, folder_id, name) ==
    IF latest_zip_file(i).ext = None THEN ErrorResult
    ELSE IF ~token THEN ErrorResult
    ELSE IF item_meta.analysis_status \in {"queued", "running"}
         THEN InProgress(item_meta)
    ELSE IF already_processed_item(i, folder_id, name)
         THEN AlreadyProcessed
    ELSE NoResult

\* The checks of trigger_zip_pipeline that answer without a trigger (lines
\* 112-143): the answer, or NoResult when the handler goes on to trigger.
zip_checks(i, item_meta, token, folder_id, name) ==
    IF latest_zip_file(i).ext = None THEN ErrorResult
    ELSE IF ~token THEN ErrorResult
    ELSE IF item_meta.analysis_status \in {"queued", "running"}
         THEN InProgress(item_meta)
    ELSE IF already_processed_item(i, folder_id, name)
            \/ item_meta.processed_dicom_ready
         THEN AlreadyProcessed
    ELSE NoResult

\* The request arrives: the item is loaded and the checks run; when they pass,
\* the job id is minted and the run triggered.
trigger_zip_pipeline(c, I) ==
    /\ pc[c] = "idle"
    /\ \E i \in I, token \in BOOLEAN, target \in TargetArgs :
        LET folder_id == target[1]
            item_name == target[2]
            zip_file == latest_zip_file(i)
            target_folder_id == Get(folder_id, None, HomeFolder)
            target_item_name ==
                Get(item_name, None, default_output_item_name(zip_file))
            answer == zip_checks(i, meta[i], token, target_folder_id,
                                 target_item_name)
            rec == [Idle EXCEPT !.op = "trigger_zip", !.item = i,
                                !.user = current_user(c), !.token = token,
                                !.item_meta = meta[i],
                                !.existing_processed =
                                    already_processed_item(i, target_folder_id,
                                                           target_item_name),
                                !.runs_before = Len(runs),
                                !.folder = target_folder_id,
                                !.name = target_item_name,
                                !.dag_id = zip_dag_id]
        IN  IF answer # NoResult
            THEN /\ Finish(c, rec, answer)
                 /\ UNCHANGED <<meta, uuids, runs>>
            ELSE /\ uuids < MaxRuns
                 /\ trigger_dag(c, [rec EXCEPT !.job_id =
                                 dag_run_id_of("manual__girder_", uuids + 1)],
                                "zip_persist", ErrorResult)
    /\ UNCHANGED <<files, processed>>

\* The trigger metadata is written onto the item; the answer is returned.
trigger_zip_pipeline_persist(c) ==
    /\ pc[c] = "zip_persist"
    /\ set_trigger_metadata(c)
    /\ Finish(c, [cur[c] EXCEPT !.nwrite = @ + 1], Started(cur[c].dag_run))
    /\ UNCHANGED <<files, processed, runs, uuids>>

\* -------------------------------------------------------------- analyze_item
\* The request arrives: the item's files are listed, the job id is minted, the
\* configuration is assembled and the run triggered.
analyze_item(c, I) ==
    /\ pc[c] = "idle"
    /\ \E i \in I, hf_token \in BOOLEAN :
        LET has_files == \E f \in files[i] : f.ext \in {".zip", ".dcm"}
            rec == [Idle EXCEPT !.op = "analyze", !.item = i,
                                !.user = current_user(c), !.token = hf_token,
                                !.item_meta = meta[i],
                                !.runs_before = Len(runs),
                                !.dag_id = analysis_dag_id]
        IN  IF ~has_files \/ ~hf_token
            THEN /\ Finish(c, rec, ErrorResult)
                 /\ UNCHANGED <<meta, uuids, runs>>
            ELSE /\ uuids < MaxRuns
                 /\ trigger_dag(c, [rec EXCEPT !.job_id =
                                 dag_run_id_of("manual__analysis_", uuids + 1)],
                                "analyze_persist", ErrorResult)
    /\ UNCHANGED <<files, processed>>

analyze_item_persist(c) ==
    /\ pc[c] = "analyze_persist"
    /\ set_trigger_metadata(c)
    /\ Finish(c, [cur[c] EXCEPT !.nwrite = @ + 1], Started(cur[c].dag_run))
    /\ UNCHANGED <<files, processed, runs, uuids>>

\* ------------------------------------------ AirflowClient.get_dag_run_status
\* GET .../dags/{dag_id}/dagRuns/{dag_run_id}: the answers the engine can give.
\* The answer carries the run's state, or leaves the state out; a run the
\* engine does not know is a 404, which the client raises like any failure.
RunStatusAnswers(dag_id, dag_run_id) ==
    IF RunIndex(dag_id, dag_run_id) = 0 THEN {}
    ELSE {[dag_run_id |-> dag_run_id, state |-> st] :
              st \in {runs[RunIndex(dag_id, dag_run_id)].state, None}}

\* state = dag_run_status.get('state', 'unknown')
fetched_state(dag_run_status) == Get(dag_run_status.state, None, "unknown")

\* The run ids a caller can ask about: those the engine knows, and one it
\* does not.
JobIdArgs ==
    {runs[r].dag_run_id : r \in 1..Len(runs)} \cup {<<"manual__girder_", 0>>}

StatusView(state, job_id, progress) ==
    [kind |-> "status", status |-> state, job_id |-> job_id,
     progress |-> progress]

\* ------------------------------------------------------------ get_job_status
\* get_job_status writing the fetched state onto the item of the job, as
\* get_zip_job_status does.
get_job_status_updating_item(c) ==
    /\ pc[c] = "idle"
    /\ \E job_id \in JobIdArgs :
        LET rec == [Idle EXCEPT !.op = "job_status", !.job_id = job_id,
                                !.runs_before = Len(runs),
                                !.dag_id = analysis_dag_id, !.nstat = 1]
        IN  \/ \E dag_run_status \in RunStatusAnswers(analysis_dag_id, job_id) :
                 /\ meta' = [i \in Items |->
                        IF meta[i].airflow_job_id = job_id
                        THEN setMetadata(meta[i],
                                 [analysis_status |->
                                     fetched_state(dag_run_status)])
                        ELSE meta[i]]
                 /\ Finish(c, [rec EXCEPT !.state = fetched_state(dag_run_status)],
                           StatusView(fetched_state(dag_run_status), job_id,
                                      NoProgress))
            \/ meta' = meta /\ Finish(c, rec, ErrorResult)
    /\ UNCHANGED <<files, processed, runs, uuids>>

get_job_status(c) ==
    /\ pc[c] = "idle"
    /\ \E job_id \in JobIdArgs :
        LET rec == [Idle EXCEPT !.op = "job_status", !.job_id = job_id,
                                !.runs_before = Len(runs),
                                !.dag_id = analysis_dag_id, !.nstat = 1]
        IN  \/ \E dag_run_status \in RunStatusAnswers(analysis_dag_id, job_id) :
                 Finish(c, [rec EXCEPT !.state = fetched_state(dag_run_status)],
                        StatusView(fetched_state(dag_run_status), job_id,
                                   NoProgress))
            \/ Finish(c, rec, ErrorResult)
    /\ UNCHANGED <<meta, files, processed, runs, uuids>>

\* ------------------------------------------ AirflowClient.get_dag_run_tasks
\* GET .../dagRuns/{dag_run_id}/taskInstances: the task lists the engine can
\* answer with.  A DAG has MaxTasks tasks, which run in order: a queued run
\* has finished none, a running run some but not all, a run that succeeded
\* all; in a failed run a task failed and the ones after it were not run.
Tasks(n_success, n_failed, n_upstream_failed) ==
    [k \in 1..MaxTasks |->
        IF k <= n_success THEN "success"
        ELSE IF k <= n_success + n_failed THEN "failed"
        ELSE IF k <= n_success + n_failed + n_upstream_failed
             THEN "upstream_failed"
        ELSE "scheduled"]

TaskAnswers(dag_id, dag_run_id) ==
    LET state == runs[RunIndex(dag_id, dag_run_id)].state IN
    IF state = "queued" THEN {Tasks(0, 0, 0)}
    ELSE IF state = "running" THEN {Tasks(k, 0, 0) : k \in 0..(MaxTasks - 1)}
    ELSE IF state = "success" THEN {Tasks(MaxTasks, 0, 0)}
    ELSE {Tasks(0, 1, MaxTasks - 1)}

\* The task-instance lists an engine can answer with when nothing is assumed
\* of the DAG: up to MaxTaskList tasks, each in a done state or
\* not done.
TaskStates == done_states \cup {"running"}

TaskLists ==
    UNION {[1..n -> TaskStates] : n \in 0..MaxTaskList}

\* -------------------------------------------------------- get_zip_job_status
CountDone(task_instances) ==
    Cardinality({k \in DOMAIN task_instances :
                    task_instances[k] \in done_states})

\* The progress with the percent left as a count of done tasks times 100.
progress_of_unscaled(task_instances, state) ==
    [percent |-> IF state = "success" THEN 100
                 ELSE CountDone(task_instances) * 100,
     done_tasks |-> CountDone(task_instances),
     total_tasks |-> Len(task_instances)]

\* The progress computed from the task instances (lines 287-298).
progress_of(task_instances, state) ==
    LET total_tasks == Len(task_instances)
        done_tasks == CountDone(task_instances)
        percent == IF total_tasks # 0
                   THEN (done_tasks * 100) \div total_tasks ELSE 0
    IN  [percent |-> IF state = "success" THEN 100 ELSE percent,
         done_tasks |-> done_tasks, total_tasks |-> total_tasks]

\* The except clause leaving the progress as initialised.
progress_fallback_unforced(state) == NoProgress

\* The progress left when the task-instance query fails (lines 299-302).
progress_fallback(state) ==
    [NoProgress EXCEPT !.percent = IF state = "success" THEN 100 ELSE 0]

\* update_meta of get_zip_job_status (lines 306-308).
zip_update_meta(state) ==
    IF state = "success"
    THEN [analysis_status |-> state, processed_dicom_ready |-> TRUE]
    ELSE [analysis_status |-> state]

\* A lookup that takes the first item there is.
find_first_item(job_id) == CHOOSE i \in Items : \A j \in Items : i <= j

\* Item().findOne({'meta.airflow_job_id': job_id}): 0 when no item matches.
find_source_item(job_id) ==
    IF \E i \in Items : meta[i].airflow_job_id = job_id
    THEN CHOOSE i \in Items : meta[i].airflow_job_id = job_id
    ELSE 0

\* The request arrives and the run status is queried.
get_zip_job_status(c) ==
    /\ pc[c] = "idle"
    /\ \E job_id \in JobIdArgs :
        LET rec == [Idle EXCEPT !.op = "zip_status", !.job_id = job_id,
                                !.runs_before = Len(runs),
                                !.dag_id = zip_dag_id, !.nstat = 1]
        IN  \/ \E dag_run_status \in RunStatusAnswers(zip_dag_id, job_id) :
                 /\ cur' = [cur EXCEPT ![c] =
                        [rec EXCEPT !.state = fetched_state(dag_run_status)]]
                 /\ pc' = [pc EXCEPT ![c] = "zip_status_tasks"]
            \/ Finish(c, rec, ErrorResult)
    /\ UNCHANGED <<meta, files, processed, runs, uuids>>

\* The source item is looked up by job id and updated; the view is returned.
update_source_item(c, rec) ==
    LET source_item == find_source_item(rec.job_id)
        view == StatusView(rec.state, rec.job_id, rec.progress)
    IN  IF source_item # 0
        THEN /\ meta' = [meta EXCEPT ![source_item] =
                    setMetadata(meta[source_item], zip_update_meta(rec.state))]
             /\ Finish(c, [rec EXCEPT !.item = source_item,
                                      !.item_meta = meta[source_item],
                                      !.nwrite = @ + 1], view)
        ELSE /\ meta' = meta
             /\ Finish(c, rec, view)

\* The task instances are queried and the progress computed; a query that
\* fails leaves the fallback progress.  Then the source item is updated.
get_zip_job_status_tasks(c, task_answers) ==
    /\ pc[c] = "zip_status_tasks"
    /\ LET asked == [cur[c] EXCEPT !.ntask = @ + 1] IN
       \/ \E progress \in {progress_of(task_instances, asked.state) :
                               task_instances \in task_answers} :
            update_source_item(c, [asked EXCEPT !.progress = progress])
       \/ update_source_item(c, [asked EXCEPT !.progress =
                                     progress_fallback(asked.state)])
    /\ UNCHANGED <<files, processed, runs, uuids>>

\* -------------------------------------------------- get_item_pipeline_status
\* The handler without its early return.
has_run_metadata_unchecked(metadata) == TRUE

\* if not dag_id or not dag_run_id
has_run_metadata(metadata) ==
    metadata.airflow_dag_id # None /\ metadata.airflow_job_id # NoId

NotStarted(metadata) ==
    [NoResult EXCEPT !.kind = "no_run",
                     !.status = Get(metadata.analysis_status, None,
                                    "not_started")]

\* The except clause answering without the persisted status.
RefreshFailed_without_status(metadata) ==
    [NoResult EXCEPT !.kind = "refresh_failed", !.status = "unknown",
                     !.job_id = metadata.airflow_job_id]

\* The answer when the status refresh fails: the persisted status and an
\* error note.
RefreshFailed(metadata) ==
    [NoResult EXCEPT !.kind = "refresh_failed",
                     !.status = Get(metadata.analysis_status, None, "unknown"),
                     !.job_id = metadata.airflow_job_id]

\* A write that records no fetched state.
item_update_unknown(state) == [analysis_status |-> "unknown"]

\* The metadata get_item_pipeline_status writes (line 343).
item_update_meta(state) == [analysis_status |-> state]

\* The request arrives: the item is loaded, its run metadata looked at and the
\* run status queried.
get_item_pipeline_status(c, I) ==
    /\ pc[c] = "idle"
    /\ \E i \in I :
        LET metadata == meta[i]
            rec == [Idle EXCEPT !.op = "item_status", !.item = i,
                                !.item_meta = metadata,
                                !.runs_before = Len(runs),
                                !.dag_id = metadata.airflow_dag_id,
                                !.job_id = metadata.airflow_job_id]
            asked == [rec EXCEPT !.nstat = 1]
        IN  IF ~has_run_metadata(metadata)
            THEN Finish(c, rec, NotStarted(metadata))
            ELSE \/ \E dag_run_status \in
                         RunStatusAnswers(rec.dag_id, rec.job_id) :
                      /\ cur' = [cur EXCEPT ![c] =
                             [asked EXCEPT !.state =
                                 fetched_state(dag_run_status)]]
                      /\ pc' = [pc EXCEPT ![c] = "item_status_write"]
                 \/ Finish(c, asked, RefreshFailed(metadata))
    /\ UNCHANGED <<meta, files, processed, runs, uuids>>

\* The fetched state is written onto the item; the view is returned.
get_item_pipeline_status_write(c) ==
    /\ pc[c] = "item_status_write"
    /\ meta' = [meta EXCEPT ![cur[c].item] =
           setMetadata(cur[c].item_meta, item_update_meta(cur[c].state))]
    /\ Finish(c, [cur[c] EXCEPT !.nwrite = @ + 1],
              StatusView(cur[c].state, cur[c].job_id, NoProgress))
    /\ UNCHANGED <<files, processed, runs, uuids>>

\* ------------------------------------------------------------------ return
\* The response body goes out and the request is over.
send_response(c) ==
    /\ pc[c] = "return"
    /\ pc' = [pc EXCEPT ![c] = "idle"]
    /\ cur' = [cur EXCEPT ![c] = Idle]
    /\ UNCHANGED <<meta, files, processed, runs, uuids>>

\* A handler that has reached its return statement sends its response before
\* anything else happens: the step touches nothing another step reads.
Returning == \E c \in Clients : pc[c] = "return"

\* ----------------------------------------------------- the DICOM processor
\* A pydicom dataset is a record that holds the attributes the file carries
\* and no others: getattr(ds, name, default).
getattr(obj, name, default) ==
    IF name \in DOMAIN obj THEN obj[name] ELSE default

\* A call either returns a value or raises.
Returns(value) == [raised |-> None, value |-> value]

Raises(error) == [raised |-> error]

NotCalled == [fn |-> None]

\* The files path.glob("*.dcm") finds, in discovery order: a file pydicom
\* cannot read, or a dataset with or without a SliceLocation.
SliceLocations == {-1, 0, 1}

FileKinds ==
    {[readable |-> FALSE], [readable |-> TRUE, located |-> FALSE]}
        \cup {[readable |-> TRUE, located |-> TRUE, SliceLocation |-> x] :
                x \in SliceLocations}

Listings == UNION {[1..n -> FileKinds] : n \in 0..MaxFiles}

\* pydicom.dcmread of the k-th file found; the dataset remembers its file.
dcmread(listing, k) ==
    IF listing[k].located
    THEN [file |-> k, SliceLocation |-> listing[k].SliceLocation]
    ELSE [file |-> k]

\* list.sort(key=...): a stable sort of <<key, element>> pairs, ascending.
insort(sorted, pair) ==
    LET pos == Cardinality({j \in 1..Len(sorted) : sorted[j][1] <= pair[1]})
    IN  SubSeq(sorted, 1, pos) \o <<pair>>
            \o SubSeq(sorted, pos + 1, Len(sorted))

RECURSIVE list_sort(_)
list_sort(keyed) ==
    IF keyed = <<>> THEN <<>>
    ELSE insort(list_sort(SubSeq(keyed, 1, Len(keyed) - 1)),
                keyed[Len(keyed)])

SliceLocation_or_absent_last(ds) == getattr(ds, "SliceLocation", MaxFiles + 1)

\* The sort key of load_dicom_series.
SliceLocation_or_0(ds) == getattr(ds, "SliceLocation", 0)

\* The read loop of load_dicom_series: a file that cannot be read is logged
\* and skipped.
RECURSIVE read_files(_, _)
read_files(listing, k) ==
    IF k > Len(listing) THEN <<>>
    ELSE IF listing[k].readable
         THEN <<dcmread(listing, k)>> \o read_files(listing, k + 1)
         ELSE read_files(listing, k + 1)

load_dicom_series(listing) ==
    LET dicom_files == read_files(listing, 1)
        keyed == [j \in 1..Len(dicom_files) |->
                    <<SliceLocation_or_0(dicom_files[j]), dicom_files[j]>>]
        sorted == list_sort(keyed)
    IN  [j \in 1..Len(sorted) |-> sorted[j][2]]

returns_unchanged_below(total, num_slices) == total < num_slices

\* extract_key_slices: the early return of a series that fits.
returns_unchanged(total, num_slices) == total <= num_slices

add_index_uncapped(indices, i, num_slices) ==
    IF \A j \in 1..Len(indices) : indices[j] # i
    THEN Append(indices, i) ELSE indices

add_index_again(indices, i, num_slices) ==
    IF Len(indices) < num_slices THEN Append(indices, i) ELSE indices

\* The body of the stride loop of extract_key_slices.
add_index(indices, i, num_slices) ==
    IF (\A j \in 1..Len(indices) : indices[j] # i)
           /\ Len(indices) < num_slices
    THEN Append(indices, i) ELSE indices

\* for i in range(i, total, step), from the indices collected so far.
RECURSIVE stride_loop(_, _, _, _, _)
stride_loop(indices, i, total, step, num_slices) ==
    IF i >= total THEN indices
    ELSE stride_loop(add_index(indices, i, num_slices), i + step, total,
                     step, num_slices)

unsorted(indices) == indices

\* sorted(indices)
sorted(indices) ==
    LET s == list_sort([j \in 1..Len(indices) |-> <<indices[j], indices[j]>>])
    IN  [j \in 1..Len(s) |-> s[j][2]]

\* The indices extract_key_slices selects from a series of total > num_slices
\* slices; total // (num_slices - 1) raises when num_slices is 1.
key_indices(total, num_slices) ==
    IF num_slices - 1 = 0 THEN Raises("ZeroDivisionError")
    ELSE LET step == total \div (num_slices - 1)
         IN  Returns(sorted(stride_loop(<<total \div 2>>, 0, total, step,
                                        num_slices)))

\* Python indexes a list from 0.
extract_key_slices(dicom_files, num_slices) ==
    IF returns_unchanged(Len(dicom_files), num_slices)
    THEN Returns(dicom_files)
    ELSE LET indices == key_indices(Len(dicom_files), num_slices)
         IN  IF indices.raised # None THEN indices
             ELSE Returns([j \in 1..Len(indices.value) |->
                              dicom_files[indices.value[j] + 1]])

\* numpy min and max of a pixel array, here a row-major sequence of numbers.
array_min(a) == CHOOSE x \in {a[j] : j \in 1..Len(a)} :
                    \A j \in 1..Len(a) : x <= a[j]

array_max(a) == CHOOSE x \in {a[j] : j \in 1..Len(a)} :
                    \A j \in 1..Len(a) : x >= a[j]

astype_uint8_rounding(num, den) == ((2 * num + den) \div (2 * den)) % 256

\* astype(np.uint8) of the quotient num / den: the fraction is dropped and
\* the integer kept in 8 bits. Quotients are computed exactly here.
astype_uint8(num, den) == (num \div den) % 256

\* Image.fromarray
fromarray(pixel_array) == [mode |-> "L", pixels |-> pixel_array]

\* dicom_to_image, up to the image; saving it is the caller's step.
dicom_to_image(dicom) ==
    LET pixel_array == dicom.pixel_array
        slope == getattr(dicom, "RescaleSlope", 1)
        intercept == getattr(dicom, "RescaleIntercept", 0)
        rescaled == [j \in 1..Len(pixel_array) |->
                        pixel_array[j] * slope + intercept]
        shifted == [j \in 1..Len(rescaled) |->
                        rescaled[j] - array_min(rescaled)]
        peak == array_max(shifted)
    IN  fromarray([j \in 1..Len(shifted) |->
                     IF peak > 0
                     THEN astype_uint8(shifted[j] * 255, peak)
                     ELSE astype_uint8(shifted[j], 1)])

PixelArrays == UNION {[1..n -> 0..MaxPixel] : n \in 1..MaxPixels}

RescaleSlopes == {-1, 0, 1, 2}

RescaleIntercepts == {-3, 0, 5}

\* The datasets dicom_to_image is applied to: a pixel array, with or without
\* a RescaleSlope and a RescaleIntercept.
PixelDatasets ==
    LET bare == {[pixel_array |-> a] : a \in PixelArrays}
        sloped == bare \cup
            {[pixel_array |-> d.pixel_array, RescaleSlope |-> m] :
                d \in bare, m \in RescaleSlopes}
    IN  sloped \cup
            {[RescaleIntercept |-> b] @@ d : d \in sloped,
                                             b \in RescaleIntercepts}

\* str(value): a string is its own text, a pydicom MultiValue (named here
\* by its type and elements) prints as a list.
str(value) ==
    CASE value = "MultiValue(1, 1)" -> "[1, 1]"
      [] value = "MultiValue(2, 2)" -> "[2, 2]"
      [] OTHER -> value

tag_defaulted(obj, name, default) == default

tag_leaking(obj, name, default) ==
    IF name = "Manufacturer" THEN getattr(obj, "InstitutionName", default)
    ELSE getattr(obj, name, default)

\* getattr(first_dicom, name, default) of extract_metadata
tag(obj, name, default) == getattr(obj, name, default)

extract_metadata(dicom_files) ==
    IF dicom_files = <<>> THEN <<>>
    ELSE LET first_dicom == dicom_files[1]
         IN  [modality |-> tag(first_dicom, "Modality", "Unknown"),
              study_description |->
                  tag(first_dicom, "StudyDescription", ""),
              series_description |->
                  tag(first_dicom, "SeriesDescription", ""),
              slice_count |-> Len(dicom_files),
              rows |-> tag(first_dicom, "Rows", 0),
              columns |-> tag(first_dicom, "Columns", 0),
              slice_thickness |-> tag(first_dicom, "SliceThickness", ""),
              pixel_spacing |->
                  str(tag(first_dicom, "PixelSpacing", "")),
              manufacturer |-> tag(first_dicom, "Manufacturer", ""),
              manufacturer_model |->
                  tag(first_dicom, "ManufacturerModelName", "")]

\* The attributes extract_metadata reads, with a value a first slice may
\* carry for each and the value the slices after it carry.
Tags ==
    [Modality |-> "CT", StudyDescription |-> "chest",
     SeriesDescription |-> "axial", Rows |-> 512, Columns |-> 512,
     SliceThickness |-> "1.5", PixelSpacing |-> "MultiValue(1, 1)",
     Manufacturer |-> "ACME", ManufacturerModelName |-> "Scan"]

LaterTags ==
    [Modality |-> "MR", StudyDescription |-> "head",
     SeriesDescription |-> "sagittal", Rows |-> 256, Columns |-> 256,
     SliceThickness |-> "3.0", PixelSpacing |-> "MultiValue(2, 2)",
     Manufacturer |-> "Other", ManufacturerModelName |-> "View"]

\* The dataset of file k that carries the attributes named.
TaggedDataset(k, names, values) ==
    [file |-> k] @@ [name \in names |-> values[name]]

\* DICOMAnonymizer.PHI_TAGS, the patient-identifying attributes.
PHI_TAGS ==
    {"PatientName", "PatientID", "PatientBirthDate", "PatientSex",
     "PatientAge", "PatientAddress", "PatientTelephoneNumbers",
     "InstitutionName", "InstitutionAddress", "ReferringPhysicianName",
     "PerformingPhysicianName", "OperatorName", "StudyDate", "StudyTime",
     "AccessionNumber", "StudyInstanceUID", "SeriesInstanceUID"}

\* The value a slice that was not anonymized holds under a PHI tag.
PHI(name) == IF name = "PatientName" THEN "DOE^JOHN" ELSE "identifying"

\* A dataset with the PHI tags a file holds: all of them, or none.
WithPHI(ds, identified) ==
    IF identified THEN ds @@ [name \in PHI_TAGS |-> PHI(name)] ELSE ds

\* ------------------------------------------------ calls of the processor
\* A series of total slices, in file order or against it.
SeriesOf(total, ascending) ==
    [k \in 1..total |-> [file |-> IF ascending THEN k ELSE total + 1 - k]]

\* The series extract_metadata is applied to: a first slice carrying any
\* subset of the attributes, followed by slices that carry them all, the
\* files anonymized or not.
MetadataSeries ==
    {<<WithPHI(TaggedDataset(1, names, Tags), identified)>> \o
         [k \in 1..(total - 1) |->
             WithPHI(TaggedDataset(k + 1, DOMAIN LaterTags, LaterTags),
                     identified)] :
       names \in SUBSET (DOMAIN Tags), total \in 1..MaxFiles,
       identified \in BOOLEAN}

call_load_dicom_series ==
    /\ dp = NotCalled
    /\ \E dicom_path \in Listings :
          dp' = [fn |-> "load_dicom_series", dicom_path |-> dicom_path,
                 result |-> Returns(load_dicom_series(dicom_path))]
    /\ UNCHANGED service_vars

call_extract_key_slices ==
    /\ dp = NotCalled
    /\ \E total \in 1..MaxSeries, num_slices \in 1..MaxSlices,
          ascending \in BOOLEAN :
          LET dicom_files == SeriesOf(total, ascending)
          IN  dp' = [fn |-> "extract_key_slices",
                     dicom_files |-> dicom_files, num_slices |-> num_slices,
                     result |-> extract_key_slices(dicom_files, num_slices)]
    /\ UNCHANGED service_vars

call_dicom_to_image ==
    /\ dp = NotCalled
    /\ \E dicom \in PixelDatasets :
          dp' = [fn |-> "dicom_to_image", dicom |-> dicom,
                 result |-> Returns(dicom_to_image(dicom))]
    /\ UNCHANGED service_vars

call_extract_metadata ==
    /\ dp = NotCalled
    /\ \E dicom_files \in MetadataSeries :
          dp' = [fn |-> "extract_metadata", dicom_files |-> dicom_files,
                 result |-> Returns(extract_metadata(dicom_files))]
    /\ UNCHANGED service_vars

no_dicom_files_unchecked(dicom_files) == FALSE

\* if not dicom_files
no_dicom_files(dicom_files) == dicom_files = <<>>

\* Path(output_dir) / f"slice_{i:03d}.png"
slice_png(i) == [stem |-> "slice_", number |-> i, suffix |-> ".png"]

\* The pixel data a file of a processed directory may hold.
StoredPixels == {<<0>>, <<0, MaxPixel>>}

\* process_series up to its loop: load, refuse an empty series, select.  A
\* processor built for more slices than the directory holds files behaves as
\* one built for one more than it holds.
process_series_call ==
    /\ dp = NotCalled
    /\ \E dicom_path \in Listings, num_slices \in 1..(MaxFiles + 1),
          output_dir \in BOOLEAN :
          LET dicom_files == load_dicom_series(dicom_path)
              key_slices == extract_key_slices(dicom_files, num_slices)
              frame == [fn |-> "process_series", dicom_path |-> dicom_path,
                        num_slices |-> num_slices,
                        output_dir |-> output_dir,
                        dicom_files |-> dicom_files, key_slices |-> <<>>,
                        images |-> <<>>, image_paths |-> <<>>, i |-> 0,
                        saved |-> {}, at |-> "raise",
                        result |-> Raises("ValueError")]
          IN  IF no_dicom_files(dicom_files)
              THEN dp' = frame
              ELSE IF key_slices.raised # None
              THEN dp' = [frame EXCEPT !.result = key_slices]
              ELSE dp' = [frame EXCEPT !.key_slices = key_slices.value,
                                       !.at = "for",
                                       !.result = Returns(<<>>)]
    /\ UNCHANGED service_vars

\* One turn of the loop of process_series over the selected slices: the
\* pixel data cannot be decoded, or the image cannot be saved (the file may
\* have been created), or the image is made, saved when an output directory
\* was given, and collected.
process_series_slice ==
    /\ dp.fn = "process_series" /\ dp.at = "for"
    /\ dp.i < Len(dp.key_slices)
    /\ \/ dp' = [dp EXCEPT !.at = "raise",
                           !.result = Raises("AttributeError")]
       \/ /\ dp.output_dir
          /\ \E created \in BOOLEAN :
                dp' = [dp EXCEPT
                         !.at = "raise", !.result = Raises("OSError"),
                         !.saved = IF created THEN @ \cup {slice_png(dp.i)}
                                   ELSE @]
       \/ \E pixel_array \in StoredPixels :
             LET dicom == [pixel_array |-> pixel_array]
                              @@ dp.key_slices[dp.i + 1]
                 img == dicom_to_image(dicom)
             IN  dp' = [dp EXCEPT
                          !.images = Append(@, img),
                          !.image_paths = IF dp.output_dir
                                          THEN Append(@, slice_png(dp.i))
                                          ELSE @,
                          !.saved = IF dp.output_dir
                                    THEN @ \cup {slice_png(dp.i)} ELSE @,
                          !.i = @ + 1]
    /\ UNCHANGED service_vars

\* The end of process_series: the metadata and the result record.
process_series_return ==
    /\ dp.fn = "process_series" /\ dp.at = "for"
    /\ dp.i = Len(dp.key_slices)
    /\ dp' = [dp EXCEPT
                !.at = "return",
                !.result = Returns(
                    [images |-> dp.images,
                     metadata |-> extract_metadata(dp.dicom_files),
                     image_paths |-> dp.image_paths,
                     total_slices |-> Len(dp.dicom_files),
                     selected_slices |-> Len(dp.key_slices)])]
    /\ UNCHANGED service_vars

\* The call is over and the processor takes the next one.
next_call ==
    /\ dp.fn # None
    /\ dp.fn = "process_series" => dp.at # "for"
    /\ dp' = NotCalled
    /\ UNCHANGED service_vars

\* ---------------------------------------------------------- specifications
\* Requests arrive one after the other, all about one item: one client, no
\* two calls overlap.
Init == InitWith({1}) /\ dp = NotCalled

Next ==
    \/ send_response(1) /\ UNCHANGED dp
    \/ ~Returning /\ \E r \in 1..Len(runs) : EngineStart(r) /\ UNCHANGED dp
    \/ ~Returning /\ \E r \in 1..Len(runs) : EngineFinish(r) /\ UNCHANGED dp
    \/ ~Returning /\ trigger_zip_pipeline(1, {1}) /\ UNCHANGED dp
    \/ ~Returning /\ trigger_zip_pipeline_persist(1) /\ UNCHANGED dp
    \/ ~Returning /\ analyze_item(1, {1}) /\ UNCHANGED dp
    \/ ~Returning /\ analyze_item_persist(1) /\ UNCHANGED dp
    \/ ~Returning /\ get_job_status(1) /\ UNCHANGED dp
    \/ ~Returning /\ get_zip_job_status(1) /\ UNCHANGED dp
    \/ ~Returning /\ get_zip_job_status_tasks(1,
                          TaskAnswers(zip_dag_id, cur[1].job_id)) /\ UNCHANGED dp
    \/ ~Returning /\ get_item_pipeline_status(1, {1}) /\ UNCHANGED dp
    \/ ~Returning /\ get_item_pipeline_status_write(1) /\ UNCHANGED dp

Spec == Init /\ [][Next]_vars

\* Two clients, whose submit requests about one item overlap.
RaceNext ==
    \/ \E c \in Clients : send_response(c) /\ UNCHANGED dp
    \/ ~Returning /\ \E r \in 1..Len(runs) : EngineStart(r) /\ UNCHANGED dp
    \/ ~Returning /\ \E r \in 1..Len(runs) : EngineFinish(r) /\ UNCHANGED dp
    \/ ~Returning /\ \E c \in Clients : trigger_zip_pipeline(c, {1}) /\ UNCHANGED dp
    \/ ~Returning /\ \E c \in Clients : trigger_zip_pipeline_persist(c) /\ UNCHANGED dp

RaceSpec == Init /\ [][RaceNext]_vars

\* ZIP submits and ZIP status calls against an engine of which nothing is
\* assumed about the task instances it lists.
ProgressNext ==
    \/ send_response(1) /\ UNCHANGED dp
    \/ ~Returning /\ \E r \in 1..Len(runs) : EngineStart(r) /\ UNCHANGED dp
    \/ ~Returning /\ \E r \in 1..Len(runs) : EngineFinish(r) /\ UNCHANGED dp
    \/ ~Returning /\ uuids < MaxProgressRuns /\ trigger_zip_pipeline(1, {1}) /\ UNCHANGED dp
    \/ ~Returning /\ trigger_zip_pipeline_persist(1) /\ UNCHANGED dp
    \/ ~Returning /\ get_zip_job_status(1) /\ UNCHANGED dp
    \/ ~Returning /\ get_zip_job_status_tasks(1, TaskLists) /\ UNCHANGED dp

ProgressSpec == Init /\ [][ProgressNext]_vars

\* ZIP submits and ZIP status calls about every item, one after the other,
\* every item holding a ZIP file and every submit carrying a token and naming
\* no target folder.
ItemsNext ==
    \/ send_response(1) /\ UNCHANGED dp
    \/ ~Returning /\ \E r \in 1..Len(runs) : EngineStart(r) /\ UNCHANGED dp
    \/ ~Returning /\ \E r \in 1..Len(runs) : EngineFinish(r) /\ UNCHANGED dp
    \/ ~Returning /\ trigger_zip_pipeline(1, Items)
                  /\ cur'[1].token /\ cur'[1].folder = HomeFolder
                  /\ UNCHANGED dp
    \/ ~Returning /\ trigger_zip_pipeline_persist(1) /\ UNCHANGED dp
    \/ ~Returning /\ get_zip_job_status(1) /\ UNCHANGED dp
    \/ ~Returning /\ get_zip_job_status_tasks(1,
                          TaskAnswers(zip_dag_id, cur[1].job_id)) /\ UNCHANGED dp

ItemsInit ==
    /\ InitWith(Items)
    /\ \A i \in Items : files[i] = {ZipFile}
    /\ dp = NotCalled

ItemsSpec == ItemsInit /\ [][ItemsNext]_vars

\* A submit of client 1 and a reconcile of client 2 about one item overlap;
\* the submits carry a token and name no target folder.
ReconcileRaceNext ==
    \/ \E c \in Clients : send_response(c) /\ UNCHANGED dp
    \/ ~Returning /\ \E r \in 1..Len(runs) : EngineStart(r) /\ UNCHANGED dp
    \/ ~Returning /\ \E r \in 1..Len(runs) : EngineFinish(r) /\ UNCHANGED dp
    \/ ~Returning /\ trigger_zip_pipeline(1, {1})
                  /\ cur'[1].token /\ cur'[1].folder = HomeFolder
                  /\ UNCHANGED dp
    \/ ~Returning /\ trigger_zip_pipeline_persist(1) /\ UNCHANGED dp
    \/ ~Returning /\ get_item_pipeline_status(2, {1}) /\ UNCHANGED dp
    \/ ~Returning /\ get_item_pipeline_status_write(2) /\ UNCHANGED dp

ReconcileRaceSpec == Init /\ [][ReconcileRaceNext]_vars

\* One caller submits and polls one item; the submits carry a token and name
\* no target folder.  Every handler that has started
\* runs to its response, the engine takes up and ends every run it holds
\* whatever the handlers are doing, and
\* the caller keeps issuing item-status calls of which, again and again, one
\* gets an answer that carries the run's state.
PollingNext ==
    \/ send_response(1) /\ UNCHANGED dp
    \/ \E r \in 1..Len(runs) : EngineStart(r) /\ UNCHANGED dp
    \/ \E r \in 1..Len(runs) : EngineFinish(r) /\ UNCHANGED dp
    \/ ~Returning /\ trigger_zip_pipeline(1, {1})
                  /\ cur'[1].token /\ cur'[1].folder = HomeFolder
                  /\ UNCHANGED dp
    \/ ~Returning /\ trigger_zip_pipeline_persist(1) /\ UNCHANGED dp
    \/ ~Returning /\ get_item_pipeline_status(1, {1}) /\ UNCHANGED dp
    \/ ~Returning /\ get_item_pipeline_status_write(1) /\ UNCHANGED dp

\* An item-status call whose status query answers with the state of the run.
status_query_succeeds ==
    /\ ~Returning
    /\ get_item_pipeline_status(1, {1})
    /\ pc'[1] = "item_status_write"
    /\ cur'[1].state \in RunStates
    /\ UNCHANGED dp

PollingFairness ==
    /\ WF_vars(send_response(1) /\ UNCHANGED dp)
    /\ WF_vars((\E r \in 1..Len(runs) : EngineStart(r)) /\ UNCHANGED dp)
    /\ WF_vars((\E r \in 1..Len(runs) : EngineFinish(r)) /\ UNCHANGED dp)
    /\ WF_vars(~Returning /\ trigger_zip_pipeline_persist(1) /\ UNCHANGED dp)
    /\ WF_vars(~Returning /\ get_item_pipeline_status_write(1)
                          /\ UNCHANGED dp)
    /\ SF_vars(status_query_succeeds)

PollingSpec == Init /\ [][PollingNext]_vars /\ PollingFairness

\* The DICOM processor alone, called on every directory, series and slice
\* within the bounds.
DicomNext ==
    \/ call_load_dicom_series
    \/ call_extract_key_slices
    \/ call_dicom_to_image
    \/ call_extract_metadata
    \/ process_series_call
    \/ process_series_slice
    \/ process_series_return
    \/ next_call

DicomSpec == Init /\ [][DicomNext]_vars

TypeOK ==
    /\ uuids \in 0..MaxRuns
    /\ Len(runs) = uuids
    /\ \A r \in 1..Len(runs) : runs[r].state \in RunStates
    /\ \A c \in Clients : cur[c].item \in Items \cup {0}

\* ------------------------------------------------------------------ claims
\* The request client 1 has run, standing at its return statement.
call == cur[1]

Returned(ops) == pc[1] = "return" /\ call.op \in ops

\* The item's persisted metadata is what the request loaded.
MetaUntouched == meta[call.item] = call.item_meta /\ call.nwrite = 0

\* The request made no trigger call and the engine holds no new run.
NoTrigger == call.ntrig = 0 /\ Len(runs) = call.runs_before

InFlight(item_meta) == item_meta.analysis_status \in {"queued", "running"}

\* The item holds a ZIP file and the request context carries a token.
ValidZipRequest == call.token /\ latest_zip_file(call.item).ext # None

ActiveRuns(i) ==
    {r \in 1..Len(runs) :
        runs[r].item = i /\ runs[r].state \in {"queued", "running"}}

\* C1, as stated: a ZIP submit for an item whose persisted analysis_status is
\* queued or running returns the in-progress result with the persisted job
\* id, makes no trigger call and leaves the item's metadata unchanged.
C1_InProgressWhateverTheRequest ==
    (Returned({"trigger_zip"}) /\ InFlight(call.item_meta)) =>
        /\ call.result = InProgress(call.item_meta)
        /\ NoTrigger
        /\ MetaUntouched

\* C1, amended: such a submit makes no trigger call and leaves the metadata
\* unchanged, and when the item holds a ZIP file and the request carries a
\* token it returns the in-progress result with the persisted job id.
C1_InProgress ==
    (Returned({"trigger_zip"}) /\ InFlight(call.item_meta)) =>
        /\ ValidZipRequest => call.result = InProgress(call.item_meta)
        /\ call.result.kind \in {"in_progress", "error"}
        /\ NoTrigger
        /\ MetaUntouched

C1_Witness ==
    /\ Returned({"trigger_zip"})
    /\ InFlight(call.item_meta)
    /\ call.result.kind = "in_progress"
    /\ call.result.job_id = call.item_meta.airflow_job_id
    /\ call.result.job_id # NoId

\* C2: after any sequence of non-overlapping submit and status calls, at most
\* one run triggered for an item is queued or running in the engine.  Stated
\* of the runs the item has had as its persisted job: when a submit has
\* triggered a run, the run persisted as the item's job until then is not
\* queued or running.
C2_AtMostOneActiveRun ==
    (Returned({"trigger_zip", "analyze"}) /\ call.result.kind = "started") =>
        \A r \in ActiveRuns(call.item) :
            runs[r].dag_run_id # call.item_meta.airflow_job_id

\* C3: analyze_item, called with a token on an item that holds files and
\* whose persisted analysis_status is queued or running or whose
\* processed-ready flag is set, makes no trigger call and returns the
\* in-progress or the already-processed result.
C3_AnalyzeChecksFirst ==
    (/\ Returned({"analyze"})
     /\ call.token
     /\ files[call.item] # {}
     /\ InFlight(call.item_meta) \/ call.item_meta.processed_dicom_ready) =>
        /\ NoTrigger
        /\ call.result.kind \in {"in_progress", "already_processed"}

\* C4, as stated: a ZIP submit for an item that is not queued or running and
\* whose processed-ready flag is set, or whose output item exists in the
\* target folder under the target name, returns the already-processed result,
\* makes no trigger call and changes no persisted state.
C4_AlreadyProcessedWhateverTheRequest ==
    (/\ Returned({"trigger_zip"})
     /\ ~InFlight(call.item_meta)
     /\ call.item_meta.processed_dicom_ready \/ call.existing_processed) =>
        /\ call.result = AlreadyProcessed
        /\ NoTrigger
        /\ MetaUntouched

\* C4, amended: such a submit makes no trigger call and changes no persisted
\* state, and when the item holds a ZIP file and the request carries a token
\* it returns the already-processed result.
C4_AlreadyProcessed ==
    (/\ Returned({"trigger_zip"})
     /\ ~InFlight(call.item_meta)
     /\ call.item_meta.processed_dicom_ready \/ call.existing_processed) =>
        /\ ValidZipRequest => call.result = AlreadyProcessed
        /\ call.result.kind \in {"already_processed", "error"}
        /\ NoTrigger
        /\ MetaUntouched

C4_Witness ==
    /\ Returned({"trigger_zip"})
    /\ ~InFlight(call.item_meta)
    /\ call.item_meta.processed_dicom_ready
    /\ ~call.existing_processed
    /\ call.result = AlreadyProcessed

\* C5: when the trigger call of a submit (ZIP or analysis) fails, the call
\* returns an error and the item's metadata is what it was before the call.
TriggerFailed == call.ntrig = 1 /\ call.dag_run.dag_run_id = NoId

C5_FailedTriggerPersistsNothing ==
    (Returned({"trigger_zip", "analyze"}) /\ TriggerFailed) =>
        /\ call.result = ErrorResult
        /\ MetaUntouched

C5_Witness ==
    /\ Returned({"trigger_zip", "analyze"})
    /\ TriggerFailed
    /\ call.item_meta.airflow_job_id # NoId
    /\ call.item_meta.analysis_status = "failed"

\* C6: when the trigger call of a submit succeeds, the item's persisted job
\* is the pipeline id, the run id of the new run, state queued, the trigger
\* actor and the trigger time, whatever job was persisted before, and the
\* call returns the triggered result with that run id.
TriggerSucceeded == call.ntrig = 1 /\ call.dag_run.dag_run_id # NoId

C6_TriggerPersisted ==
    (Returned({"trigger_zip", "analyze"}) /\ TriggerSucceeded) =>
        /\ Len(runs) = call.runs_before + 1
        /\ runs[Len(runs)].dag_run_id = call.job_id
        /\ runs[Len(runs)].dag_id = call.dag_id
        /\ call.dag_id =
              IF call.op = "trigger_zip" THEN zip_dag_id ELSE analysis_dag_id
        /\ meta[call.item] =
              [airflow_dag_id |-> call.dag_id,
               airflow_job_id |-> call.job_id,
               analysis_status |-> "queued",
               job_started |-> call.dag_run.logical_date,
               triggered_by |-> current_user(1),
               triggered_at |-> now,
               processed_dicom_ready |-> call.item_meta.processed_dicom_ready]
        /\ call.result.kind = "started"
        /\ call.result.job_id = call.job_id

C6_Witness ==
    /\ Returned({"trigger_zip"})
    /\ TriggerSucceeded
    /\ call.item_meta.analysis_status \in {"success", "failed"}
    /\ call.item_meta.airflow_job_id \notin {NoId, call.job_id}
    /\ meta[call.item].airflow_job_id = call.job_id

\* C7: a ZIP submit that has triggered a run read an item that showed no job
\* in flight and nothing processed; two overlapping calls can both have read
\* it so (C7_Witness), and then both trigger.
C7_TriggeredOnOwnRead ==
    \A c \in Clients :
        pc[c] = "zip_persist" =>
            /\ ~InFlight(cur[c].item_meta)
            /\ ~cur[c].item_meta.processed_dicom_ready
            /\ ~cur[c].existing_processed

C7_Witness ==
    /\ pc[1] = "zip_persist"
    /\ pc[2] = "zip_persist"
    /\ cur[1].item = cur[2].item
    /\ cur[1].job_id # cur[2].job_id
    /\ \A c \in Clients :
          \E r \in ActiveRuns(cur[c].item) : runs[r].dag_run_id = cur[c].job_id
    /\ Cardinality(ActiveRuns(cur[1].item)) = 2

\* C8: get_item_pipeline_status on an item without a pipeline id or without
\* a run id returns not_started, calls the engine not once and writes
\* nothing.
C8_NotStarted ==
    (/\ Returned({"item_status"})
     /\ \/ call.item_meta.airflow_dag_id = None
        \/ call.item_meta.airflow_job_id = NoId) =>
        /\ call.result.kind = "no_run"
        /\ call.result.status = "not_started"
        /\ call.nstat = 0 /\ call.ntask = 0
        /\ NoTrigger
        /\ MetaUntouched

C8_Witness ==
    /\ Returned({"item_status"})
    /\ call.item_meta.airflow_job_id = NoId
    /\ call.result.status = "not_started"
    /\ Len(runs) > 0

\* C9: get_item_pipeline_status, its status query answered, overwrites
\* analysis_status only, and sets the processed-ready flag when the fetched
\* state is success.
C9_ReconcileWritesStateAndReady ==
    (Returned({"item_status"}) /\ call.result.kind = "status") =>
        meta[call.item] =
            [call.item_meta EXCEPT
                !.analysis_status = call.state,
                !.processed_dicom_ready = @ \/ call.state = "success"]

\* C10: no status call replaces a persisted analysis_status of queued,
\* running, success or failed with unknown.
C10_NeverBackToUnknown ==
    (/\ Returned({"item_status", "zip_status"})
     /\ call.item # 0
     /\ call.item_meta.analysis_status \in RunStates) =>
        meta[call.item].analysis_status # "unknown"

\* C11: over a sequence of reconcile calls analysis_status only moves forward:
\* a reconcile call that finds success or failed persisted leaves it, and one
\* that finds running persisted does not put queued back.
C11_ForwardOnly ==
    (Returned({"item_status", "zip_status"}) /\ call.item # 0) =>
        /\ call.item_meta.analysis_status \in {"success", "failed"} =>
              meta[call.item].analysis_status = call.item_meta.analysis_status
        /\ call.item_meta.analysis_status = "running" =>
              meta[call.item].analysis_status # "queued"

StatusQueryFailed == call.nstat = 1 /\ call.state = None

C13_RefreshFailureKeepsState ==
    (Returned({"item_status"}) /\ StatusQueryFailed) =>
        /\ call.result.kind = "refresh_failed"
        /\ call.result.status = call.item_meta.analysis_status
        /\ call.result.status # None
        /\ call.result.job_id = call.item_meta.airflow_job_id
        /\ NoTrigger
        /\ MetaUntouched

C13_Witness ==
    /\ Returned({"item_status"})
    /\ StatusQueryFailed
    /\ call.result.status = "running"
    /\ \E r \in 1..Len(runs) :
          runs[r].dag_run_id = call.job_id /\ runs[r].state = "success"

\* C14: a submit or status call in which an engine call failed (the trigger,
\* the run-status query, the task-instance query) returns a result body: the
\* error body, the persisted status with an error note, or the run state with
\* the fallback progress.  No call ends in an uncaught fault.
TaskQueryFailed == call.ntask = 1 /\ call.progress.total_tasks = 0

AllOps == {"trigger_zip", "analyze", "job_status", "zip_status", "item_status"}

C14_FailuresAreResults ==
    /\ \A c \in Clients : cur[c].result.kind # "fault"
    /\ Returned(AllOps) =>
          /\ call.result.kind \in
                {"error", "refresh_failed", "status", "no_run", "started",
                 "in_progress", "already_processed"}
          /\ TriggerFailed => call.result.kind = "error"
          /\ StatusQueryFailed =>
                call.result.kind \in {"error", "refresh_failed"}
          /\ TaskQueryFailed =>
                call.result.kind = "status" /\ call.result.status = call.state

C14_Witness ==
    /\ Returned({"job_status"})
    /\ StatusQueryFailed
    /\ call.result.kind = "error"
    /\ \E r \in 1..Len(runs) :
          runs[r].dag_run_id = call.job_id /\ runs[r].dag_id = analysis_dag_id

\* C15: a submit makes at most one trigger call and no status query, a status
\* call makes at most one run-status query and at most one task-instance
\* query and no trigger call, and the engine holds at most one run more than
\* when the call arrived.
C15_NoRetry ==
    /\ call.ntrig <= 1 /\ call.nstat <= 1 /\ call.ntask <= 1
    /\ call.op \in {"trigger_zip", "analyze"} =>
          call.nstat = 0 /\ call.ntask = 0
    /\ call.op \in {"job_status", "zip_status", "item_status"} =>
          call.ntrig = 0 /\ Len(runs) = call.runs_before
    /\ call.op # None => Len(runs) <= call.runs_before + 1

C15_Witness ==
    /\ Returned({"analyze"})
    /\ TriggerFailed
    /\ Len(runs) = call.runs_before
    /\ call.item_meta.analysis_status = None

\* C16: for a task list with total > 0 and a run state other than success
\* (here: the queued, running or failed run of an item's persisted job), the
\* reported percent is done/total*100 rounded to the nearest integer
\* (2 of 3 gives 67): it is off the exact value by at most one half.
Abs(x) == IF x < 0 THEN 0 - x ELSE x

C16_PercentRounded ==
    (/\ Returned({"zip_status"})
     /\ call.result.kind = "status"
     /\ call.item # 0
     /\ call.progress.total_tasks > 0
     /\ call.state \in RunStates \ {"success"}) =>
        2 * Abs(call.result.progress.percent * call.progress.total_tasks
                - 100 * call.progress.done_tasks)
            <= call.progress.total_tasks

\* C17: a ZIP status call whose run-status query was answered returns the run
\* state; with state success its percent is 100, whatever the task-instance
\* query gave; with another state and no task instance obtained its progress
\* is percent 0, done 0, total 0.
C17_ProgressDegrades ==
    (Returned({"zip_status"}) /\ call.state # None) =>
        /\ call.result.kind = "status"
        /\ call.result.status = call.state
        /\ call.state = "success" => call.result.progress.percent = 100
        /\ (call.state # "success" /\ call.progress.total_tasks = 0) =>
              call.result.progress = NoProgress

C17_Witness ==
    /\ Returned({"zip_status"})
    /\ call.state = "success"
    /\ call.ntask = 1
    /\ call.result.progress =
          [percent |-> 100, done_tasks |-> 0, total_tasks |-> 0]

\* C18: a ZIP submit that finds no job and no output item on an item with a
\* ZIP file, and whose trigger call is answered, returns the started result
\* with the run id of the new run; a ZIP status call that fetches state
\* success and the task instances of the run, all of them done, returns
\* percent 100 with done = total = the number of tasks.
C18_SubmitThenStatus ==
    /\ (/\ Returned({"trigger_zip"})
        /\ ValidZipRequest
        /\ call.item_meta = EmptyMeta
        /\ ~call.existing_processed
        /\ ~TriggerFailed) =>
           /\ call.result.kind = "started"
           /\ call.result.job_id = call.job_id
           /\ call.job_id # NoId
    /\ (/\ Returned({"zip_status"})
        /\ call.state = "success"
        /\ call.progress.total_tasks > 0) =>
           call.result.progress =
               [percent |-> 100, done_tasks |-> MaxTasks,
                total_tasks |-> MaxTasks]

C18_Witness ==
    /\ Returned({"zip_status"})
    /\ call.state = "success"
    /\ call.result.progress =
          [percent |-> 100, done_tasks |-> 4, total_tasks |-> 4]
    /\ call.item # 0
    /\ call.item_meta.airflow_job_id = call.job_id
    /\ call.item_meta.analysis_status = "queued"
    /\ call.item_meta.triggered_at = 1

\* C19: get_job_status is a pure query: whatever run id it is asked about
\* and whatever the engine answers, the step leaves every item's metadata,
\* the engine's runs and the output items as they are.
C19_JobStatusIsPure ==
    [][get_job_status(1) =>
          (meta' = meta /\ runs' = runs /\ uuids' = uuids
           /\ processed' = processed /\ files' = files)]_vars

C19_Witness ==
    /\ Returned({"job_status"})
    /\ call.result.kind = "status"
    /\ \E i \in Items :
          /\ meta[i].airflow_job_id = call.job_id
          /\ meta[i].analysis_status = "queued"
          /\ call.result.status = "success"

\* C20: every run carries the run id derived from its kind and its job id
\* (manual__girder_<job id> for a ZIP run, manual__analysis_<job id> for an
\* analysis run), no two runs carry the same run id, and the job id persisted
\* by a submit is the run id it sent with the trigger.
kind_prefix(dag_id) ==
    IF dag_id = zip_dag_id THEN "manual__girder_" ELSE "manual__analysis_"

C20_RunIdsDerived ==
    /\ \A r \in 1..Len(runs) :
          runs[r].dag_run_id = <<kind_prefix(runs[r].dag_id), r>>
    /\ \A r, q \in 1..Len(runs) :
          runs[r].dag_run_id = runs[q].dag_run_id => r = q
    /\ (Returned({"trigger_zip", "analyze"}) /\ TriggerSucceeded) =>
          /\ runs[Len(runs)].dag_run_id = call.job_id
          /\ call.dag_run.dag_run_id = call.job_id
          /\ meta[call.item].airflow_job_id = call.job_id

C20_Witness ==
    /\ Returned({"analyze"})
    /\ TriggerSucceeded
    /\ Len(runs) = 2
    /\ runs[1].dag_id = zip_dag_id
    /\ runs[1].dag_run_id = <<"manual__girder_", 1>>
    /\ meta[call.item].airflow_job_id = <<"manual__analysis_", 2>>

\* ------------------------------------------- claims on the DICOM processor
\* extract_key_slices has been applied to a series of L slices with
\* num_slices N.
Selecting == dp.fn = "extract_key_slices"

L == Len(dp.dicom_files)

N == dp.num_slices

MinOf(a, b) == IF a <= b THEN a ELSE b

\* The ascending sequence of a set of indices.
RECURSIVE Ascending(_)
Ascending(S) ==
    IF S = {} THEN <<>>
    ELSE LET least == CHOOSE x \in S : \A y \in S : x <= y
         IN  <<least>> \o Ascending(S \ {least})

\* The slices of the series at the indices of a set, by ascending index.
SlicesAt(S) ==
    LET indices == Ascending(S)
    IN  [j \in 1..Len(indices) |-> dp.dicom_files[indices[j] + 1]]

\* The indices the walk 0, s, 2s, ... below L visits, s = floor(L / (N - 1)).
Stride == L \div (N - 1)

Walk == {i \in 0..(L - 1) : i % Stride = 0}

\* C21, as stated (already where N >= 2 and nothing raises): the selector
\* returns exactly min(L, N) slices.
C21_ExactlyMinSlices ==
    (Selecting /\ N >= 2) =>
        /\ dp.result.raised = None
        /\ Len(dp.result.value) = MinOf(L, N)

\* C21, amended: the selector returns L slices when L <= N; when L > N and
\* N >= 2 it returns N slices, except that it returns N - 1 slices when the
\* stride divides the midpoint index and the walk visits only N - 1 indices.
C21_MinSlicesOrOneLess ==
    (Selecting /\ (L <= N \/ N >= 2)) =>
        /\ dp.result.raised = None
        /\ L <= N => Len(dp.result.value) = L
        /\ L > N =>
              Len(dp.result.value) =
                  IF (L \div 2) \in Walk /\ Cardinality(Walk) = N - 1
                  THEN N - 1 ELSE N

C21_Witness ==
    /\ Selecting /\ L = 12 /\ N = 5
    /\ dp.result.raised = None /\ Len(dp.result.value) = 4

\* C22, as stated: for every N >= 1 and L >= 1 the selector returns at most
\* N slices, and when L > N the slice at index floor(L / 2) is among them.
C22_AtMostNWithMidpoint ==
    Selecting =>
        /\ dp.result.raised = None
        /\ Len(dp.result.value) <= N
        /\ L > N =>
              \E j \in 1..Len(dp.result.value) :
                  dp.result.value[j] = dp.dicom_files[(L \div 2) + 1]

\* C23, as stated: with N = 1 and L > 1 the selector returns exactly the
\* slice at index floor(L / 2) and does not fault on the stride.
C23_SingleSliceIsMidpoint ==
    (Selecting /\ N = 1 /\ L > 1) =>
        dp.result = Returns(<<dp.dicom_files[(L \div 2) + 1]>>)

\* The reference selection: the midpoint index, and of the walk's other
\* indices the first N - 1.
ReferenceIndices ==
    LET others == Walk \ {L \div 2}
    IN  {L \div 2} \cup
            {i \in others :
                Cardinality({j \in others : j < i}) < N - 1}

\* C24: for every L > N >= 2 the selector returns the slices at the
\* reference indices, ascending, whatever the slices are; for L = 12 and
\* N = 5 these are the indices 0, 3, 6, 9.
C24_ReferenceSelection ==
    (Selecting /\ L > N /\ N >= 2) =>
        /\ dp.result = Returns(SlicesAt(ReferenceIndices))
        /\ (L = 12 /\ N = 5) => dp.result = Returns(SlicesAt({0, 3, 6, 9}))

C24_Witness ==
    /\ Selecting /\ L = 12 /\ N = 5
    /\ dp.dicom_files[1].file = 12
    /\ dp.result = Returns(SlicesAt({0, 3, 6, 9}))

\* C25: when L <= N the selector returns the whole series, the same slices
\* in the same order.
C25_SmallSeriesUnchanged ==
    (Selecting /\ L <= N) => dp.result = Returns(dp.dicom_files)

C25_Witness ==
    /\ Selecting /\ L = 3 /\ N = 3 /\ dp.dicom_files[1].file = 3
    /\ dp.result = Returns(dp.dicom_files)

\* The pixel values of the converted slice after the affine rescale.
Rescaled ==
    [j \in 1..Len(dp.dicom.pixel_array) |->
        dp.dicom.pixel_array[j] * getattr(dp.dicom, "RescaleSlope", 1)
            + getattr(dp.dicom, "RescaleIntercept", 0)]

Constant(a) == \A j, k \in 1..Len(a) : a[j] = a[k]

\* C26: every value of the image is in 0..255; an image of a rescaled grid
\* that is not constant holds both 0 and 255, an image of a constant one is
\* all zero and is returned; each value is 255 (v - min) / (max - min) with
\* its fraction dropped.
C26_NormalizedRange ==
    dp.fn = "dicom_to_image" =>
        LET out == dp.result.value.pixels
            low == array_min(Rescaled)
            span == array_max(Rescaled) - low
        IN  /\ dp.result.raised = None
            /\ Len(out) = Len(Rescaled)
            /\ \A j \in 1..Len(out) : out[j] \in 0..255
            /\ Constant(Rescaled) => \A j \in 1..Len(out) : out[j] = 0
            /\ ~Constant(Rescaled) =>
                  /\ \E j \in 1..Len(out) : out[j] = 0
                  /\ \E j \in 1..Len(out) : out[j] = 255
                  /\ \A j \in 1..Len(out) :
                        /\ out[j] * span <= 255 * (Rescaled[j] - low)
                        /\ 255 * (Rescaled[j] - low) < (out[j] + 1) * span

C26_Witness ==
    /\ dp.fn = "dicom_to_image"
    /\ dp.dicom = [pixel_array |-> <<1, 2, 3>>, RescaleSlope |-> 2,
                   RescaleIntercept |-> -3]
    /\ dp.result.value.pixels = <<0, 127, 255>>

\* The position load_dicom_series orders a slice by.
Position(ds) == IF "SliceLocation" \in DOMAIN ds THEN ds.SliceLocation ELSE 0

\* C27: the loader returns the readable files of the directory, each once,
\* by ascending position with a missing position counted as 0 and slices of
\* equal position in discovery order; a file that cannot be read is left
\* out and does not abort the load.
C27_LoaderOrder ==
    dp.fn = "load_dicom_series" =>
        LET out == dp.result.value
        IN  /\ dp.result.raised = None
            /\ {out[j].file : j \in 1..Len(out)} =
                  {k \in 1..Len(dp.dicom_path) : dp.dicom_path[k].readable}
            /\ \A j \in 1..Len(out) : out[j] = dcmread(dp.dicom_path,
                                                       out[j].file)
            /\ \A j, k \in 1..Len(out) :
                  j < k =>
                      \/ Position(out[j]) < Position(out[k])
                      \/ /\ Position(out[j]) = Position(out[k])
                         /\ out[j].file < out[k].file

C27_Witness ==
    /\ dp.fn = "load_dicom_series"
    /\ dp.dicom_path = <<[readable |-> TRUE, located |-> FALSE],
                         [readable |-> FALSE],
                         [readable |-> TRUE, located |-> TRUE,
                          SliceLocation |-> -1]>>
    /\ dp.result = Returns(<<[file |-> 3, SliceLocation |-> -1],
                             [file |-> 1]>>)

Processing == dp.fn = "process_series"

\* C28: series processing of a directory with no readable slice fails with
\* the input error, and has made no image, no image file and no metadata.
C28_EmptySeriesFails ==
    (Processing /\ \A k \in 1..Len(dp.dicom_path) :
                      ~dp.dicom_path[k].readable) =>
        /\ dp.at = "raise" /\ dp.result = Raises("ValueError")
        /\ dp.images = <<>> /\ dp.image_paths = <<>> /\ dp.saved = {}

C28_Witness ==
    /\ Processing /\ dp.output_dir
    /\ dp.dicom_path = <<[readable |-> FALSE], [readable |-> FALSE]>>
    /\ dp.result = Raises("ValueError")

\* C29, as stated: when converting or saving the k-th selected slice fails,
\* process_series returns no result record and no image file of the slices
\* before it remains in the output directory.
C29_NoPartialResults ==
    (Processing /\ dp.at = "raise") =>
        /\ dp.result.raised # None
        /\ \A k \in 0..(dp.i - 1) : slice_png(k) \notin dp.saved

\* The fields of the metadata record, each with the attribute it is read
\* from and its default.
MetadataFields ==
    [modality |-> <<"Modality", "Unknown">>,
     study_description |-> <<"StudyDescription", "">>,
     series_description |-> <<"SeriesDescription", "">>,
     rows |-> <<"Rows", 0>>,
     columns |-> <<"Columns", 0>>,
     slice_thickness |-> <<"SliceThickness", "">>,
     manufacturer |-> <<"Manufacturer", "">>,
     manufacturer_model |-> <<"ManufacturerModelName", "">>]

\* C30: metadata extraction returns, for every series, a record with every
\* field: slice_count is the length of the series, every other field is the
\* first slice's attribute (the pixel spacing as text) or, the attribute
\* absent, its default.
C30_MetadataTotal ==
    dp.fn = "extract_metadata" =>
        LET first == dp.dicom_files[1]
            metadata == dp.result.value
        IN  /\ dp.result.raised = None
            /\ DOMAIN metadata =
                  DOMAIN MetadataFields \cup {"slice_count", "pixel_spacing"}
            /\ metadata.slice_count = Len(dp.dicom_files)
            /\ \A f \in DOMAIN MetadataFields :
                  metadata[f] =
                      IF MetadataFields[f][1] \in DOMAIN first
                      THEN first[MetadataFields[f][1]]
                      ELSE MetadataFields[f][2]
            /\ metadata.pixel_spacing =
                  IF "PixelSpacing" \in DOMAIN first THEN "[1, 1]" ELSE ""

C30_Witness ==
    /\ dp.fn = "extract_metadata"
    /\ Len(dp.dicom_files) = 2 /\ dp.dicom_files[1] = [file |-> 1]
    /\ dp.result.value.modality = "Unknown"
    /\ dp.result.value.rows = 0
    /\ dp.result.value.slice_count = 2

\* The series with every PHI tag deleted from every slice.
Anonymized(dicom_files) ==
    [k \in 1..Len(dicom_files) |->
        [name \in (DOMAIN dicom_files[k]) \ PHI_TAGS |->
            dicom_files[k][name]]]

\* The attributes the fields of the record are read from.
SourceTags ==
    {MetadataFields[f][1] : f \in DOMAIN MetadataFields} \cup {"PixelSpacing"}

\* C31: the metadata record carries no patient-identifying field: no key and
\* no attribute a field is read from is a PHI tag, and the record of a series
\* is the record of the same series with every PHI tag deleted, whatever the
\* PHI tags hold.
C31_NoPHIInMetadata ==
    dp.fn = "extract_metadata" =>
        /\ dp.result.raised = None
        /\ DOMAIN dp.result.value \cap PHI_TAGS = {}
        /\ SourceTags \cap PHI_TAGS = {}
        /\ \A f \in {"modality", "study_description", "series_description",
                     "slice_thickness", "pixel_spacing", "manufacturer",
                     "manufacturer_model"} :
              dp.result.value[f] \notin {PHI(name) : name \in PHI_TAGS}
        /\ dp.result.value = extract_metadata(Anonymized(dp.dicom_files))

C31_Witness ==
    /\ dp.fn = "extract_metadata"
    /\ {"PatientName", "Modality"} \subseteq DOMAIN dp.dicom_files[1]
    /\ dp.dicom_files[1].PatientName = "DOE^JOHN"
    /\ dp.dicom_files[1].Modality = "CT"
    /\ dp.result.value.modality = "CT"

\* The index in the series of the j-th slice the selector returned.
ChosenIndex(j) ==
    CHOOSE k \in 0..(L - 1) : dp.dicom_files[k + 1] = dp.result.value[j]

\* C39: for every L > N >= 2 the selector returns slices of the series at
\* pairwise distinct indices of 0..L-1, in strictly ascending order of index,
\* the first of them the slice at index 0.
C39_IndicesAscendingFromZero ==
    (Selecting /\ L > N /\ N >= 2) =>
        /\ dp.result.raised = None
        /\ \A j \in 1..Len(dp.result.value) :
              \E k \in 0..(L - 1) : dp.dicom_files[k + 1] = dp.result.value[j]
        /\ \A j, k \in 1..Len(dp.result.value) :
              j < k => ChosenIndex(j) < ChosenIndex(k)
        /\ \E j \in 1..Len(dp.result.value) : ChosenIndex(j) = 0

C39_Witness ==
    /\ Selecting /\ L = 7 /\ N = 3 /\ dp.dicom_files[1].file = 7
    /\ dp.result.raised = None
    /\ Len(dp.result.value) = 3
    /\ ChosenIndex(1) = 0 /\ ChosenIndex(2) = 3 /\ ChosenIndex(3) = 6

\* ------------------------------------------------- claims on the service
\* C33, as stated: once a ZIP submit has triggered a run and an item-level
\* reconcile has persisted the state success for it, a further ZIP submit for
\* the item makes no trigger call, whether or not the output item exists.
C33_NoTriggerAfterReconciledSuccess ==
    (/\ Returned({"trigger_zip"})
     /\ call.item_meta.airflow_dag_id = zip_dag_id
     /\ call.item_meta.analysis_status = "success") =>
        NoTrigger

\* C34, as stated: a submit (ZIP or analysis) that returns an error result
\* has created no run in the engine.
C34_ErrorMeansNoRun ==
    (Returned({"trigger_zip", "analyze"}) /\ call.result = ErrorResult) =>
        Len(runs) = call.runs_before

\* C37: a ZIP submit for an item with no ZIP file, or with no token in the
\* request context, returns an error result, makes no trigger call and leaves
\* the item's metadata unchanged, whatever the item's analysis_status.
C37_InvalidRequestIsError ==
    (Returned({"trigger_zip"}) /\ ~ValidZipRequest) =>
        /\ call.result = ErrorResult
        /\ NoTrigger
        /\ MetaUntouched

C37_Witness ==
    /\ Returned({"trigger_zip"})
    /\ latest_zip_file(call.item).ext # None /\ ~call.token
    /\ call.item_meta.analysis_status = "running"
    /\ call.result = ErrorResult

\* C38: in every progress record a ZIP status call returns, done_tasks is
\* between 0 and total_tasks, percent between 0 and 100, and percent is 100
\* when every task of a list that is not empty is done.
C38_ProgressInRange ==
    (Returned({"zip_status"}) /\ call.result.kind = "status") =>
        LET progress == call.result.progress
        IN  /\ 0 <= progress.done_tasks
            /\ progress.done_tasks <= progress.total_tasks
            /\ 0 <= progress.percent /\ progress.percent <= 100
            /\ (progress.done_tasks = progress.total_tasks
                    /\ progress.total_tasks > 0) => progress.percent = 100

C38_Witness ==
    /\ Returned({"zip_status"})
    /\ call.state = "running"
    /\ call.result.progress =
          [percent |-> 100, done_tasks |-> 3, total_tasks |-> 3]

\* C36: the step of get_zip_job_status that follows an answered status query
\* writes to the item whose persisted job id is the id asked about, and to
\* no other: that item's analysis_status becomes the fetched state and its
\* processed-ready flag is set when the state is success; every other field
\* and every other item stay as they were, and with no such item nothing is
\* written.
C36_ZipStatusWritesItemOfJob ==
    [][(pc[1] = "zip_status_tasks" /\ pc'[1] = "return") =>
          \A i \in Items :
              meta'[i] =
                  IF meta[i].airflow_job_id = cur[1].job_id
                  THEN [meta[i] EXCEPT
                          !.analysis_status = cur[1].state,
                          !.processed_dicom_ready =
                              @ \/ cur[1].state = "success"]
                  ELSE meta[i]]_vars

C36_Witness ==
    /\ Returned({"zip_status"})
    /\ call.item = 2 /\ call.nwrite = 1
    /\ meta[2].analysis_status = "success" /\ meta[2].processed_dicom_ready
    /\ meta[1].airflow_job_id # NoId
    /\ meta[1].analysis_status = "queued"
    /\ ~meta[1].processed_dicom_ready

\* C32: a reconcile call that read the item before a newer run was triggered
\* and persisted leaves the item's job id alone and does not write the state of
\* the run it asked about over the record of the newer job.
C32_ReconcileKeepsNewerRun ==
    [][(pc[2] = "item_status_write" /\ pc'[2] = "return") =>
          /\ meta'[1].airflow_job_id = meta[1].airflow_job_id
          /\ meta[1].airflow_job_id # cur[2].job_id =>
                 meta'[1].analysis_status = meta[1].analysis_status]_vars

\* The run the item's persisted job id names, 0 when there is none.
tracked_run == RunIndex(meta[1].airflow_dag_id, meta[1].airflow_job_id)

tracked_run_ended ==
    /\ tracked_run # 0
    /\ runs[tracked_run].state \in {"success", "failed"}

====
